---- MODULE Spec2Model ----
(***************************************************************************)
(* A model of tweet_search.py: the incremental, paginated search (main,    *)
(* search_tweets, request_url), the redirect resolver (resolve_redirects), *)
(* the four-pattern filter (filter_tweets) and the three files a run       *)
(* writes (tweets.jsonl, filtered.txt, config.json).                       *)
(***************************************************************************)
EXTENDS Integers, Sequences, FiniteSets, TLC

(* ------------------------------ bounds -------------------------------- *)
\* item ids at the source are 0..MaxId
MaxId == 2
\* the page size the modelled source uses for count=100 (line 175)
PageSize == 2
\* the caller passes max_pages in 0..MaxPagesArg
MaxPagesArg == 2
\* number of runs of main that are started
MaxRuns == 2
\* cap on the non-empty pages one search_tweets call accumulates
MaxCount == 3
\* length of the lists filter_tweets is called with on its own
MaxTweets == 2
\* length of the texts resolve_redirects is called with on its own
MaxTextLen == 3

(* --------------------------- program constants ------------------------ *)
\* "if retry >= 3: break"
RetryLimit == 3
\* timedelta(hours=9) of print_tweet
DisplayOffset == 9

(* ------------------------------ values -------------------------------- *)
\* Python's None for a string-valued or integer-valued name
None == "None"
\* an optional integer (latest_tweet_id, max_id) is <<>> (None) or <<n>>
NoId == <<>>
SomeId(n) == <<n>>
IsNoId(o) == o = <<>>
IdOf(o) == o[1]

Ids == 0..MaxId

\* Texts are sequences of symbols: letters "a", "b", a newline "nl", a
\* shortened-URL token "T" (matches URL_PATTERN) and a destination URL "U".
\* The texts of the items the source holds:
Texts == << <<"a">>, <<"a", "nl", "b">>, <<"b">>, <<>> >>
Users == << <<"a">>, <<"b">> >>
TextOf(id) == Texts[(id % Len(Texts)) + 1]
UserOf(id) == Users[(id % Len(Users)) + 1]

\* a status of the search API's response: id, created_at, full_text, user.name
Status(id) ==
  [id |-> id, created_at |-> id, full_text |-> TextOf(id), user |-> UserOf(id)]

(* --------------------------- Python helpers --------------------------- *)
\* truthiness of a request parameter value ("if v" in request_url)
TruthyStr(s) == s # None /\ s # ""
TruthyId(o) == ~IsNoId(o) /\ IdOf(o) # 0

RECURSIVE SeqMax(_)
SeqMax(s) ==
  IF Len(s) = 1 THEN s[1]
  ELSE LET m == SeqMax(Tail(s)) IN IF s[1] >= m THEN s[1] ELSE m

RECURSIVE SeqMin(_)
SeqMin(s) ==
  IF Len(s) = 1 THEN s[1]
  ELSE LET m == SeqMin(Tail(s)) IN IF s[1] <= m THEN s[1] ELSE m

IdsOf(ts) == [i \in 1..Len(ts) |-> ts[i].id]

\* insert t after every element whose id is <= t.id (keeps sorted() stable)
RECURSIVE InsertById(_, _)
InsertById(sorted, t) ==
  IF sorted = <<>> THEN <<t>>
  ELSE IF sorted[Len(sorted)].id <= t.id THEN Append(sorted, t)
  ELSE Append(InsertById(SubSeq(sorted, 1, Len(sorted) - 1), t), sorted[Len(sorted)])

RECURSIVE SortedFrom(_, _)
SortedFrom(acc, ts) ==
  IF ts = <<>> THEN acc ELSE SortedFrom(InsertById(acc, Head(ts)), Tail(ts))

\* sorted(tweets, key=lambda t: t['id'])
SortedById(ts) == SortedFrom(<<>>, ts)

(* ------------------------- resolve_redirects -------------------------- *)
\* positions of the matches of URL_PATTERN in text, left to right
RECURSIVE TokenPositionsFrom(_, _)
TokenPositionsFrom(text, i) ==
  IF i > Len(text) THEN <<>>
  ELSE IF text[i] = "T" THEN <<i>> \o TokenPositionsFrom(text, i + 1)
  ELSE TokenPositionsFrom(text, i + 1)

TokenPositions(text) == TokenPositionsFrom(text, 1)

\* the outcomes of the requests of one text: one of "ok", "fail" per match
Outcomes(text) == [1..Len(TokenPositions(text)) -> {"ok", "fail"}]

\* the loop of resolve_redirects: k is the index of the next match, prev the
\* (1-based) position after the last replaced match, result the text so far
RECURSIVE ResolveLoop(_, _, _, _, _)
ResolveLoop(text, outcome, k, prev, result) ==
  LET ms == TokenPositions(text) IN
  IF k > Len(ms) THEN result \o SubSeq(text, prev, Len(text))
  ELSE IF outcome[k] = "ok"
       THEN ResolveLoop(text, outcome, k + 1, ms[k] + 1,
                        result \o SubSeq(text, prev, ms[k] - 1) \o <<"U">>)
       ELSE ResolveLoop(text, outcome, k + 1, prev, result)

resolve_redirects(text, outcome) == ResolveLoop(text, outcome, 1, 1, <<>>)

(* ---------------------------- filter_tweets --------------------------- *)
Patterns == {"", "(?!)", "a", "b", ".+", "^$"}

Contains(s, c) == \E i \in 1..Len(s) : s[i] = c

\* re.compile(pattern).search(s) is not None
Search(pattern, s) ==
  CASE pattern = "" -> TRUE
    [] pattern = "(?!)" -> FALSE
    [] pattern = "a" -> Contains(s, "a")
    [] pattern = "b" -> Contains(s, "b")
    [] pattern = ".+" -> \E i \in 1..Len(s) : s[i] # "nl"
    [] pattern = "^$" -> s = <<>> \/ s = <<"nl">>

\* a filter that forgets the last of the four predicates
AcceptedWithoutRejectUser(t, accept_regexp_text, reject_regexp_text, accept_regexp_user, reject_regexp_user) ==
  /\ Search(accept_regexp_text, t.text)
  /\ ~Search(reject_regexp_text, t.text)
  /\ Search(accept_regexp_user, t.user)

Accepted(t, accept_regexp_text, reject_regexp_text, accept_regexp_user, reject_regexp_user) ==
  /\ Search(accept_regexp_text, t.text)
  /\ ~Search(reject_regexp_text, t.text)
  /\ Search(accept_regexp_user, t.user)
  /\ ~Search(reject_regexp_user, t.user)

RECURSIVE filter_tweets(_, _, _, _, _)
filter_tweets(tweets, accept_regexp_text, reject_regexp_text, accept_regexp_user, reject_regexp_user) ==
  IF tweets = <<>> THEN <<>>
  ELSE LET rest == filter_tweets(Tail(tweets), accept_regexp_text, reject_regexp_text,
                                 accept_regexp_user, reject_regexp_user)
       IN IF Accepted(Head(tweets), accept_regexp_text, reject_regexp_text,
                      accept_regexp_user, reject_regexp_user)
          THEN <<Head(tweets)>> \o rest
          ELSE rest

(* ----------------------------- print_tweet ---------------------------- *)
\* t['text'].replace('\t', ' ').replace('\n', ' ')
Flatten(text) == [i \in 1..Len(text) |-> IF text[i] = "nl" THEN "sp" ELSE text[i]]

\* one line of filtered.txt: permalink, shifted timestamp, user, flat text
print_tweet(t) ==
  [permalink |-> t.id, time |-> t.created_at + DisplayOffset,
   user |-> t.user, text |-> Flatten(t.text)]

PrintAll(ts) == [i \in 1..Len(ts) |-> print_tweet(ts[i])]

(* ------------------------------- state -------------------------------- *)
VARIABLES
  source,            \* ids of the items the search API holds for a query
  config_file,       \* config.json: <<>> (no file) or <<the dict written>>
  tweets_jsonl,      \* tweets.jsonl: the tweets written, one per line
  filtered_txt,      \* filtered.txt: the lines written
  pc,                \* where the current run of main is ("exit": no run)
  outcome,           \* how the last run ended
  args,              \* the caller-supplied arguments of the current run
  config,            \* the dict built at lines 81-89 (<<>> before that)
  latest_tweet_id,   \* main's latest_tweet_id as passed to search_tweets
  old_search_keywords,
  count, retry, tweets, max_id,   \* locals of search_tweets
  filtered_tweets,   \* main's filtered_tweets
  requests,          \* history: the requests a call of search_tweets issued
  before,            \* history: the three files and the source as they were when the run started
  runs,              \* history: number of runs started
  call,              \* a call of a function on its own: its name and arguments
  returned           \* what that call returned

vars == <<source, config_file, tweets_jsonl, filtered_txt, pc, outcome, args, config,
          latest_tweet_id, old_search_keywords, count, retry, tweets, max_id,
          filtered_tweets, requests, before, runs, call, returned>>

files == <<config_file, tweets_jsonl, filtered_txt>>
search_locals == <<count, retry, tweets, max_id>>
pure == <<call, returned>>

(* ------------------------- the caller's inputs ------------------------ *)
ArgKeywords == {None, "", "foo"}

\* <<accept_regexp_text, reject_regexp_text, accept_regexp_user,
\*   reject_regexp_user, auth_json_path>> as given on the command line
ArgOptions ==
  { <<None, None, None, None, None>>,
    <<"a", None, None, "b", "./my.json">> }

Args(k, o, r, p) ==
  [search_keywords |-> k,
   accept_regexp_text |-> o[1], reject_regexp_text |-> o[2],
   accept_regexp_user |-> o[3], reject_regexp_user |-> o[4],
   auth_json_path |-> o[5],
   recreate_filtered_txt |-> r, max_pages |-> p]

\* the command lines tried: every page limit with the options left out,
\* no page limit with the options given or with empty keywords, and a
\* second query
CallerArgs ==
  { Args(k, <<None, None, None, None, None>>, r, p) :
      k \in {None, "foo"}, r \in BOOLEAN, p \in 0..MaxPagesArg }
  \cup
  { Args(k, o, r, 0) : k \in ArgKeywords, o \in ArgOptions, r \in BOOLEAN }
  \cup
  { Args("bar", <<None, None, None, None, None>>, FALSE, 0) }

\* the snapshot 'before' when no run of main has started
NoRun == [config_file |-> <<>>, tweets_jsonl |-> <<>>, filtered_txt |-> <<>>, source |-> {}]

NoArgs ==
  [search_keywords |-> None, accept_regexp_text |-> None, reject_regexp_text |-> None,
   accept_regexp_user |-> None, reject_regexp_user |-> None, auth_json_path |-> None,
   recreate_filtered_txt |-> FALSE, max_pages |-> 0]

(* ----------------------- main, lines 46-97: merge --------------------- *)
\* a precedence that prefers the persisted value or the default
OrElseFallbackFirst(given, fallback) == IF fallback = None THEN given ELSE fallback

OrElse(given, fallback) == IF given = None THEN fallback ELSE given

\* lines 47-66, the config file exists and holds the dict c
MergePersisted(a, c) ==
  LET same == a.search_keywords = None \/ c.search_keywords = a.search_keywords IN
  [error |-> "none",
   old_search_keywords |->
     IF ~same /\ TruthyStr(a.search_keywords) THEN c.search_keywords ELSE None,
   config |->
     [search_keywords |-> OrElse(a.search_keywords, c.search_keywords),
      accept_regexp_text |-> OrElse(a.accept_regexp_text, c.accept_regexp_text),
      reject_regexp_text |-> OrElse(a.reject_regexp_text, c.reject_regexp_text),
      accept_regexp_user |-> OrElse(a.accept_regexp_user, c.accept_regexp_user),
      reject_regexp_user |-> OrElse(a.reject_regexp_user, c.reject_regexp_user),
      auth_json_path |-> OrElse(a.auth_json_path, c.auth_json_path),
      latest_tweet_id |-> IF same THEN c.latest_tweet_id ELSE NoId]]

\* a merge that lets a run without keywords and without config.json go on
MergeDefaultsUnchecked(a) ==
  [error |-> "none",
   old_search_keywords |-> None,
   config |->
     [search_keywords |-> a.search_keywords,
      accept_regexp_text |-> OrElse(a.accept_regexp_text, ""),
      reject_regexp_text |-> OrElse(a.reject_regexp_text, "(?!)"),
      accept_regexp_user |-> OrElse(a.accept_regexp_user, ""),
      reject_regexp_user |-> OrElse(a.reject_regexp_user, "(?!)"),
      auth_json_path |-> OrElse(a.auth_json_path, "./auth.json"),
      latest_tweet_id |-> NoId]]

\* lines 67-80, FileNotFoundError
MergeDefaults(a) ==
  [error |-> IF a.search_keywords = None THEN "search keywords required" ELSE "none",
   old_search_keywords |-> None,
   config |->
     [search_keywords |-> a.search_keywords,
      accept_regexp_text |-> OrElse(a.accept_regexp_text, ""),
      reject_regexp_text |-> OrElse(a.reject_regexp_text, "(?!)"),
      accept_regexp_user |-> OrElse(a.accept_regexp_user, ""),
      reject_regexp_user |-> OrElse(a.reject_regexp_user, "(?!)"),
      auth_json_path |-> OrElse(a.auth_json_path, "./auth.json"),
      latest_tweet_id |-> NoId]]

\* lines 46-97: the merged configuration, or the exception the run dies of;
\* line 95 reads config['search_condition'], a key the dict of line 81 lacks
Merge(a, file) ==
  LET m == IF file = <<>> THEN MergeDefaults(a) ELSE MergePersisted(a, file[1]) IN
  IF m.error # "none" THEN m
  ELSE IF TruthyStr(m.old_search_keywords) THEN [m EXCEPT !.error = "KeyError"]
  ELSE m

(* ------------------------------ the source ---------------------------- *)
SetMax(S) == CHOOSE m \in S : \A x \in S : x <= m

\* the n greatest elements of S, greatest first (the API lists newest first)
RECURSIVE TopDesc(_, _)
TopDesc(S, n) ==
  IF S = {} \/ n = 0 THEN <<>>
  ELSE <<SetMax(S)>> \o TopDesc(S \ {SetMax(S)}, n - 1)

\* the ids a source that honours since_id (exclusive) and max_id (inclusive)
\* may list for a request; an absent parameter bounds nothing
InBounds(held, url) ==
  { id \in held : /\ (IsNoId(url.since_id) \/ id > IdOf(url.since_id))
                  /\ (IsNoId(url.max_id) \/ id <= IdOf(url.max_id)) }

\* response.json()['statuses'] of a successful request
Page(held, url) ==
  LET top == TopDesc(InBounds(held, url), PageSize) IN
  [i \in 1..Len(top) |-> Status(top[i])]

(* ----------------------------- request_url ---------------------------- *)
\* the parameters that reach the URL: request_url keeps a parameter "if v",
\* so None, the empty string and the integer 0 are all left out
request_url(parameters) ==
  [q |-> IF TruthyStr(parameters.q) THEN parameters.q ELSE None,
   max_id |-> IF TruthyId(parameters.max_id) THEN parameters.max_id ELSE NoId,
   since_id |-> IF TruthyId(parameters.since_id) THEN parameters.since_id ELSE NoId]

(* ---------------------------- search_tweets --------------------------- *)
\* lines 199-205: the tweets built from one page, each text resolved with
\* the outcomes chosen for its tokens
Resolved(statuses, outcomes) ==
  [i \in 1..Len(statuses) |->
     [id |-> statuses[i].id, created_at |-> statuses[i].created_at,
      text |-> resolve_redirects(statuses[i].full_text, outcomes[i]),
      user |-> statuses[i].user]]

PageOutcomes(statuses) ==
  { o \in [1..Len(statuses) -> UNION { Outcomes(statuses[i].full_text) : i \in 1..Len(statuses) }] :
      \A i \in 1..Len(statuses) : o[i] \in Outcomes(statuses[i].full_text) }

\* line 209
NextMaxId(ts) == SomeId(SeqMin(IdsOf(ts)) - 1)

\* a loop that allows one empty or failed response more
EmptyResponseOneMore ==
  /\ retry' = retry + 1
  /\ pc' = IF retry + 1 > RetryLimit THEN "merge" ELSE "search"
  /\ UNCHANGED <<count, tweets, max_id>>

\* lines 193-197: an empty or failed response
EmptyResponse ==
  /\ retry' = retry + 1
  /\ pc' = IF retry + 1 >= RetryLimit THEN "merge" ELSE "search"
  /\ UNCHANGED <<count, tweets, max_id>>

\* a page limit tested against the count before the page is counted
NonEmptyResponseLate(statuses) ==
  \E o \in PageOutcomes(statuses) :
    LET all == tweets \o Resolved(statuses, o)
        last == args.max_pages # 0 /\ count >= args.max_pages
    IN /\ retry' = 0
       /\ tweets' = all
       /\ count' = count + 1
       /\ max_id' = IF last THEN max_id ELSE NextMaxId(all)
       /\ pc' = IF last THEN "merge" ELSE "search"

\* lines 198-209: a page of at least one status
NonEmptyResponse(statuses) ==
  \E o \in PageOutcomes(statuses) :
    LET all == tweets \o Resolved(statuses, o)
        last == args.max_pages # 0 /\ count + 1 >= args.max_pages
    IN /\ retry' = 0
       /\ tweets' = all
       /\ count' = count + 1
       /\ max_id' = IF last THEN max_id ELSE NextMaxId(all)
       /\ pc' = IF last THEN "merge" ELSE "search"

\* the history of requests is kept for a call of search_tweets on its own
Recorded(request) ==
  IF call.fn = "search_tweets" THEN Append(requests, request) ELSE requests

\* one iteration of the loop of search_tweets (lines 172-209): a request and
\* its response. A request without q is refused by the API (an error). The
\* except clause of lines 188-192 sleeps 900 s and goes on with no status.
Request ==
  /\ pc = "search"
  /\ count < MaxCount
  /\ LET url == request_url([q |-> config.search_keywords, max_id |-> max_id,
                             since_id |-> latest_tweet_id])
     IN \E kind \in {"ok", "error"} :
          LET statuses == IF kind = "error" \/ url.q = None THEN <<>>
                          ELSE Page(source, url)
              result == IF kind = "error" \/ url.q = None THEN "error"
                        ELSE IF statuses = <<>> THEN "empty" ELSE "page"
          IN /\ requests' = Recorded([max_id |-> url.max_id,
                                        since_id |-> url.since_id,
                                        result |-> result,
                                        slept |-> (result = "error")])
             /\ IF statuses = <<>> THEN EmptyResponse ELSE NonEmptyResponse(statuses)
  /\ UNCHANGED <<source, files, outcome, args, config, latest_tweet_id,
                 old_search_keywords, filtered_tweets, before, runs>>
  /\ UNCHANGED pure

(* -------------------------------- main -------------------------------- *)
\* lines 41-102: a run of main starts with the caller's arguments a, merges
\* them with config.json and either dies of an exception or calls search_tweets
Start(a) ==
  /\ pc = "exit"
  /\ runs < MaxRuns
  /\ LET m == Merge(a, config_file) IN
       /\ pc' = IF m.error = "none" THEN "search" ELSE "done"
       /\ outcome' = IF m.error = "none" THEN "running" ELSE m.error
       /\ config' = IF m.error = "search keywords required" THEN <<>> ELSE m.config
       /\ latest_tweet_id' = m.config.latest_tweet_id
       /\ old_search_keywords' = m.old_search_keywords
  /\ args' = a
  /\ count' = 0
  /\ retry' = 0
  /\ tweets' = <<>>
  /\ max_id' = NoId
  /\ filtered_tweets' = <<>>
  /\ requests' = <<>>
  /\ before' = [config_file |-> config_file, tweets_jsonl |-> tweets_jsonl,
                filtered_txt |-> filtered_txt, source |-> source]
  /\ runs' = runs + 1
  /\ UNCHANGED <<source, files>>
  /\ UNCHANGED pure

\* a cursor one above the last tweet
LatestOfNext(total_tweets) == total_tweets[Len(total_tweets)].id + 1

\* a cursor taken from the first tweet instead of the last
LatestOfFirst(total_tweets) == total_tweets[1].id

\* line 123: the id of the last of prev_tweets + tweets
LatestOf(total_tweets) == total_tweets[Len(total_tweets)].id

\* lines 104-133: sort what search_tweets returned, read tweets.jsonl back in
\* recreate mode, return if there is nothing, else filter and set the cursor
Prepare ==
  /\ pc = "merge"
  /\ LET sorted == SortedById(tweets)
         prev_tweets == IF args.recreate_filtered_txt THEN tweets_jsonl ELSE <<>>
         total_tweets == prev_tweets \o sorted
     IN IF prev_tweets = <<>> /\ sorted = <<>>
        THEN /\ pc' = "done"
             /\ outcome' = "returned"
             /\ UNCHANGED <<tweets, filtered_tweets, config>>
        ELSE /\ pc' = "append"
             /\ tweets' = sorted
             /\ filtered_tweets' =
                  filter_tweets(total_tweets, config.accept_regexp_text,
                                config.reject_regexp_text, config.accept_regexp_user,
                                config.reject_regexp_user)
             /\ config' = [config EXCEPT !.latest_tweet_id = SomeId(LatestOf(total_tweets))]
             /\ UNCHANGED outcome
  /\ UNCHANGED <<source, files, args, latest_tweet_id, old_search_keywords,
                 count, retry, max_id, requests, before, runs>>
  /\ UNCHANGED pure

\* an append that writes config.json in the same step
AppendTweetsAndConfig ==
  /\ pc = "append"
  /\ tweets_jsonl' = tweets_jsonl \o tweets
  /\ config_file' = <<config>>
  /\ pc' = "filtered"
  /\ UNCHANGED <<source, filtered_txt, outcome, args, config,
                 latest_tweet_id, old_search_keywords, search_locals,
                 filtered_tweets, requests, before, runs>>
  /\ UNCHANGED pure

\* lines 135-142: append the new tweets to tweets.jsonl
AppendTweets ==
  /\ pc = "append"
  /\ tweets_jsonl' = tweets_jsonl \o tweets
  /\ pc' = "filtered"
  /\ UNCHANGED <<source, config_file, filtered_txt, outcome, args, config,
                 latest_tweet_id, old_search_keywords, search_locals,
                 filtered_tweets, requests, before, runs>>
  /\ UNCHANGED pure

\* a filtered.txt that is opened with 'a' in recreate mode too
WriteFilteredAlwaysAppends ==
  /\ pc = "filtered"
  /\ filtered_txt' = filtered_txt \o PrintAll(filtered_tweets)
  /\ pc' = "config"
  /\ UNCHANGED <<source, config_file, tweets_jsonl, outcome, args, config,
                 latest_tweet_id, old_search_keywords, search_locals,
                 filtered_tweets, requests, before, runs>>
  /\ UNCHANGED pure

\* lines 143-146: write ('w') or append ('a') the lines of filtered.txt
WriteFiltered ==
  /\ pc = "filtered"
  /\ filtered_txt' = IF args.recreate_filtered_txt
                     THEN PrintAll(filtered_tweets)
                     ELSE filtered_txt \o PrintAll(filtered_tweets)
  /\ pc' = "config"
  /\ UNCHANGED <<source, config_file, tweets_jsonl, outcome, args, config,
                 latest_tweet_id, old_search_keywords, search_locals,
                 filtered_tweets, requests, before, runs>>
  /\ UNCHANGED pure

\* lines 147-153: write config.json
WriteConfig ==
  /\ pc = "config"
  /\ config_file' = <<config>>
  /\ pc' = "done"
  /\ outcome' = "completed"
  /\ UNCHANGED <<source, tweets_jsonl, filtered_txt, args, config,
                 latest_tweet_id, old_search_keywords, search_locals,
                 filtered_tweets, requests, before, runs>>
  /\ UNCHANGED pure

\* a KeyboardInterrupt (re-raised at lines 186-187, 230-231) or an I/O error
\* ends the run wherever it is; the exception unwinds main, whose locals go
Interrupt ==
  /\ pc \in {"search", "merge", "append", "filtered", "config"}
  /\ pc' = "done"
  /\ outcome' = "interrupted"
  /\ config' = <<>>
  /\ latest_tweet_id' = NoId
  /\ old_search_keywords' = None
  /\ count' = 0
  /\ retry' = 0
  /\ tweets' = <<>>
  /\ max_id' = NoId
  /\ filtered_tweets' = <<>>
  /\ requests' = <<>>
  /\ UNCHANGED <<source, files, args, before, runs>>
  /\ UNCHANGED pure

\* the process ends (return, or the exception reaches the top): its locals go
Exit ==
  /\ pc = "done"
  /\ pc' = "exit"
  /\ outcome' = "none"
  /\ args' = NoArgs
  /\ config' = <<>>
  /\ latest_tweet_id' = NoId
  /\ old_search_keywords' = None
  /\ count' = 0
  /\ retry' = 0
  /\ tweets' = <<>>
  /\ max_id' = NoId
  /\ filtered_tweets' = <<>>
  /\ requests' = <<>>
  /\ before' = NoRun
  /\ UNCHANGED <<source, files, runs>>
  /\ UNCHANGED pure

(* ---------------------------- environment ----------------------------- *)
\* the source gets a new item, between two runs or while search_tweets
\* runs (nothing else reads the source); ids grow with time
Publish(id) ==
  /\ pc \in {"exit", "search"}
  /\ \A x \in source : x < id
  /\ source' = source \cup {id}
  /\ UNCHANGED <<files, pc, outcome, args, config, latest_tweet_id,
                 old_search_keywords, search_locals, filtered_tweets, requests,
                 before, runs>>
  /\ UNCHANGED pure

Init ==
  /\ source = {}
  /\ config_file = <<>>
  /\ tweets_jsonl = <<>>
  /\ filtered_txt = <<>>
  /\ pc = "exit"
  /\ outcome = "none"
  /\ args = NoArgs
  /\ config = <<>>
  /\ latest_tweet_id = NoId
  /\ old_search_keywords = None
  /\ count = 0
  /\ retry = 0
  /\ tweets = <<>>
  /\ max_id = NoId
  /\ filtered_tweets = <<>>
  /\ requests = <<>>
  /\ before = NoRun
  /\ runs = 0
  /\ call = [fn |-> "none"]
  /\ returned = <<>>

Next ==
  \/ \E a \in CallerArgs : Start(a)
  \/ Request
  \/ Prepare
  \/ AppendTweets
  \/ WriteFiltered
  \/ WriteConfig
  \/ Interrupt
  \/ Exit
  \/ \E id \in Ids : Publish(id)

Spec == Init /\ [][Next]_vars

\* runs that are never interrupted: each one returns, completes or dies of
\* its own exception
NextUninterrupted ==
  \/ \E a \in CallerArgs : Start(a)
  \/ Request
  \/ Prepare
  \/ AppendTweets
  \/ WriteFiltered
  \/ WriteConfig
  \/ Exit
  \/ \E id \in Ids : Publish(id)

SpecUninterrupted == Init /\ [][NextUninterrupted]_vars

(* ----------------------- search_tweets on its own --------------------- *)
\* a call search_tweets(auth, latest_tweet_id, search_keywords, max_pages)
\* against a source that holds any set of items; a cursor is the id of an
\* item the source holds
SearchInit ==
  /\ source \in SUBSET Ids
  /\ latest_tweet_id \in {NoId} \cup { SomeId(id) : id \in source }
  /\ \E k \in {"foo", ""}, p \in 0..MaxPagesArg :
       /\ args = [NoArgs EXCEPT !.search_keywords = k, !.max_pages = p]
       /\ config = [search_keywords |-> k,
                    accept_regexp_text |-> "", reject_regexp_text |-> "(?!)",
                    accept_regexp_user |-> "", reject_regexp_user |-> "(?!)",
                    auth_json_path |-> "./auth.json",
                    latest_tweet_id |-> latest_tweet_id]
  /\ config_file = <<>>
  /\ tweets_jsonl = <<>>
  /\ filtered_txt = <<>>
  /\ pc = "search"
  /\ outcome = "running"
  /\ old_search_keywords = None
  /\ count = 0
  /\ retry = 0
  /\ tweets = <<>>
  /\ max_id = NoId
  /\ filtered_tweets = <<>>
  /\ requests = <<>>
  /\ before = NoRun
  /\ runs = 1
  /\ call = [fn |-> "search_tweets", state |-> "called"]
  /\ returned = <<>>

\* line 210: return tweets
SearchReturn ==
  /\ call.fn = "search_tweets"
  /\ call.state = "called"
  /\ pc = "merge"
  /\ returned' = tweets
  /\ call' = [call EXCEPT !.state = "returned"]
  /\ UNCHANGED <<source, files, pc, outcome, args, config, latest_tweet_id,
                 old_search_keywords, search_locals, filtered_tweets, requests,
                 before, runs>>

\* the source may get new items while search_tweets runs
SearchNext ==
  \/ Request
  \/ SearchReturn
  \/ \E id \in Ids : Publish(id)

SearchSpec == SearchInit /\ [][SearchNext]_vars

(* ----------------------- filter_tweets on its own --------------------- *)
\* the (text, user) pairs of the tweets filter_tweets is called with
FilterTexts == {<<>>, <<"a">>, <<"b">>, <<"nl">>, <<"a", "nl", "b">>}
FilterUsers == {<<"a">>, <<"b">>}

FilterInputs ==
  UNION { { [i \in 1..n |-> [id |-> i, created_at |-> i, text |-> f[i][1], user |-> f[i][2]]] :
              f \in [1..n -> FilterTexts \X FilterUsers] } : n \in 0..MaxTweets }

FilterCalls ==
  [fn : {"filter_tweets"}, state : {"called"}, tweets : FilterInputs,
   accept_regexp_text : Patterns, reject_regexp_text : Patterns,
   accept_regexp_user : {"", "a"}, reject_regexp_user : {"(?!)", "b", ""}]

FilterInit ==
  /\ source = {}
  /\ config_file = <<>>
  /\ tweets_jsonl = <<>>
  /\ filtered_txt = <<>>
  /\ pc = "exit"
  /\ outcome = "none"
  /\ args = NoArgs
  /\ config = <<>>
  /\ latest_tweet_id = NoId
  /\ old_search_keywords = None
  /\ count = 0
  /\ retry = 0
  /\ tweets = <<>>
  /\ max_id = NoId
  /\ filtered_tweets = <<>>
  /\ requests = <<>>
  /\ before = NoRun
  /\ runs = 0
  /\ call \in FilterCalls
  /\ returned = <<>>

\* the call of filter_tweets returns
FilterReturn ==
  /\ call.fn = "filter_tweets"
  /\ call.state = "called"
  /\ returned' = filter_tweets(call.tweets, call.accept_regexp_text, call.reject_regexp_text,
                               call.accept_regexp_user, call.reject_regexp_user)
  /\ call' = [call EXCEPT !.state = "returned"]
  /\ UNCHANGED <<source, files, pc, outcome, args, config, latest_tweet_id,
                 old_search_keywords, search_locals, filtered_tweets, requests,
                 before, runs>>

FilterSpec == FilterInit /\ [][FilterReturn]_vars

(* --------------------- resolve_redirects on its own ------------------- *)
\* the texts resolve_redirects is called with: plain symbols and tokens
RECURSIVE SeqsUpTo(_, _)
SeqsUpTo(S, n) ==
  IF n = 0 THEN {<<>>}
  ELSE LET shorter == SeqsUpTo(S, n - 1) IN
       shorter \cup { Append(s, x) : s \in shorter, x \in S }

ResolveTexts == SeqsUpTo({"a", "T"}, MaxTextLen)

\* a call resolve_redirects(text) made at line 203 of search_tweets: its
\* locals (k: index of the current match, prev, result), the line it is at,
\* whether the alarm of line 223 is armed, the exception in flight out of
\* the except clause, and the history of what happened to each token
ResolveInit ==
  /\ source = {}
  /\ config_file = <<>>
  /\ tweets_jsonl = <<>>
  /\ filtered_txt = <<>>
  /\ pc = "search"
  /\ outcome = "running"
  /\ args = NoArgs
  /\ config = <<>>
  /\ latest_tweet_id = NoId
  /\ old_search_keywords = None
  /\ count = 0
  /\ retry = 0
  /\ tweets = <<>>
  /\ max_id = NoId
  /\ filtered_tweets = <<>>
  /\ requests = <<>>
  /\ before = NoRun
  /\ runs = 1
  /\ \E text \in ResolveTexts :
       call = [fn |-> "resolve_redirects", state |-> "called", text |-> text,
               k |-> 1, prev |-> 1, result |-> <<>>, at |-> "for",
               armed |-> FALSE, raising |-> FALSE, tokens |-> <<>>]
  /\ returned = <<>>

ResolveFrame ==
  UNCHANGED <<source, files, args, config, latest_tweet_id, old_search_keywords,
              search_locals, filtered_tweets, requests, before, runs>>

Running(at) ==
  call.fn = "resolve_redirects" /\ call.state = "called" /\ call.at = at

\* lines 219-225: the next match; the handler is installed, the alarm armed
ResolveArm ==
  /\ Running("for")
  /\ call.k <= Len(TokenPositions(call.text))
  /\ call' = [call EXCEPT !.at = "get", !.armed = TRUE]
  /\ UNCHANGED <<pc, outcome, returned>>
  /\ ResolveFrame

\* line 226: requests.get returns the destination, or raises (an HTTP or
\* network failure, or its own timeout of 3.1 s)
ResolveGet(how) ==
  /\ Running("get")
  /\ call' = IF how = "ok" THEN [call EXCEPT !.at = "got"]
             ELSE [call EXCEPT !.at = "except", !.tokens = Append(@, how)]
  /\ UNCHANGED <<pc, outcome, returned>>
  /\ ResolveFrame

\* line 228: result += text[prev:m.start()] + url
ResolveAppend ==
  /\ Running("got")
  /\ LET m == TokenPositions(call.text)[call.k] IN
       call' = [call EXCEPT !.at = "appended",
                            !.result = @ \o SubSeq(call.text, call.prev, m - 1) \o <<"U">>]
  /\ UNCHANGED <<pc, outcome, returned>>
  /\ ResolveFrame

\* line 229: prev = m.end(); the try body is done
ResolveAdvance ==
  /\ Running("appended")
  /\ LET m == TokenPositions(call.text)[call.k] IN
       call' = [call EXCEPT !.at = "finally", !.prev = m + 1,
                            !.tokens = Append(@, "resolved")]
  /\ UNCHANGED <<pc, outcome, returned>>
  /\ ResolveFrame

\* lines 232-233: except Exception: print('failed:', e)
ResolveExcept ==
  /\ Running("except")
  /\ call' = [call EXCEPT !.at = "finally"]
  /\ UNCHANGED <<pc, outcome, returned>>
  /\ ResolveFrame

\* lines 234-235: signal.alarm(0); then the next match, or, when an
\* exception left the except clause, out of resolve_redirects: line 203 is
\* in no try, so it leaves search_tweets and main as well
ResolveFinally ==
  /\ Running("finally")
  /\ IF call.raising
     THEN /\ call' = [call EXCEPT !.state = "raised", !.armed = FALSE]
          /\ pc' = "done"
          /\ outcome' = "timeout"
     ELSE /\ call' = [call EXCEPT !.at = "for", !.armed = FALSE, !.k = @ + 1]
          /\ UNCHANGED <<pc, outcome>>
  /\ UNCHANGED returned
  /\ ResolveFrame

\* the alarm goes off: _timeout raises Exception('timeout') where the main
\* thread is. In the try body the except clause catches it; in the except
\* clause it is in flight through finally; in the finally clause, before
\* signal.alarm(0), it leaves resolve_redirects at once
Alarm ==
  /\ call.fn = "resolve_redirects" /\ call.state = "called"
  /\ call.armed
  /\ call.at \in {"get", "got", "appended", "except", "finally"}
  /\ CASE call.at \in {"get", "got", "appended"} ->
            /\ call' = [call EXCEPT !.at = "except", !.armed = FALSE,
                                    !.tokens = Append(@, "timed out")]
            /\ UNCHANGED <<pc, outcome>>
       [] call.at = "except" ->
            /\ call' = [call EXCEPT !.at = "finally", !.armed = FALSE, !.raising = TRUE]
            /\ UNCHANGED <<pc, outcome>>
       [] call.at = "finally" ->
            /\ call' = [call EXCEPT !.state = "raised", !.armed = FALSE]
            /\ pc' = "done"
            /\ outcome' = "timeout"
  /\ UNCHANGED returned
  /\ ResolveFrame

\* lines 230-231: a KeyboardInterrupt is raised again and ends the fetch
ResolveInterrupt ==
  /\ call.fn = "resolve_redirects" /\ call.state = "called"
  /\ call' = [call EXCEPT !.state = "interrupted", !.armed = FALSE]
  /\ pc' = "done"
  /\ outcome' = "interrupted"
  /\ UNCHANGED returned
  /\ ResolveFrame

\* lines 236-237: result += text[prev:]; return result
ResolveReturn ==
  /\ Running("for")
  /\ call.k > Len(TokenPositions(call.text))
  /\ returned' = call.result \o SubSeq(call.text, call.prev, Len(call.text))
  /\ call' = [call EXCEPT !.state = "returned"]
  /\ UNCHANGED <<pc, outcome>>
  /\ ResolveFrame

ResolveNext ==
  \/ ResolveArm
  \/ \E how \in {"ok", "failed", "timed out"} : ResolveGet(how)
  \/ ResolveAppend
  \/ ResolveAdvance
  \/ ResolveExcept
  \/ ResolveFinally
  \/ Alarm
  \/ ResolveInterrupt
  \/ ResolveReturn

ResolveSpec == ResolveInit /\ [][ResolveNext]_vars

(* ------------------------- notions of the claims ---------------------- *)
Completed == pc = "done" /\ outcome = "completed"
Ended == pc = "done" /\ outcome \in {"completed", "returned"}

Cursor(file) == file[1].latest_tweet_id
RawIds == IdsOf(tweets_jsonl)
Range(seq) == { seq[i] : i \in 1..Len(seq) }

StrictlyAscending(ns) == \A i \in 1..(Len(ns) - 1) : ns[i] < ns[i + 1]
IsPrefix(a, b) == Len(a) <= Len(b) /\ SubSeq(b, 1, Len(a)) = a

\* the number of responses at the end of rs that were empty or failed
RECURSIVE Trailing(_)
Trailing(rs) ==
  IF rs = <<>> \/ rs[Len(rs)].result = "page" THEN 0
  ELSE 1 + Trailing(SubSeq(rs, 1, Len(rs) - 1))

(* -------------------------------- C1 ---------------------------------- *)
\* C1: when a run has written config.json, the cursor in it is the greatest
\* id of tweets.jsonl, and it is not below the cursor the run found there.
C1_CursorIsMaxAndMonotonic ==
  Completed =>
    /\ Cursor(config_file) = SomeId(SeqMax(RawIds))
    /\ before.config_file # <<>> /\ ~IsNoId(Cursor(before.config_file))
         => IdOf(Cursor(before.config_file)) <= IdOf(Cursor(config_file))

\* a second completed run that moved the cursor up, over a log of several ids
C1_Witness ==
  /\ Completed
  /\ before.config_file # <<>>
  /\ IdOf(Cursor(before.config_file)) < IdOf(Cursor(config_file))
  /\ Len(tweets_jsonl) >= 2
  /\ Len(tweets) >= 1

(* -------------------------------- C2 ---------------------------------- *)
\* C2: over runs that are never interrupted, tweets.jsonl only grows at its
\* end and its ids are strictly ascending (so no id occurs twice).
C2_RawLogAscending ==
  /\ StrictlyAscending(RawIds)
  /\ pc # "exit" => IsPrefix(before.tweets_jsonl, tweets_jsonl)

(* -------------------------------- C3 ---------------------------------- *)
\* C3: when a run has completed, every item of the source whose id is above
\* the cursor the run started from and not above the cursor it wrote is in
\* tweets.jsonl, whatever ended the loop of search_tweets.
C3_NoItemDropped ==
  Completed =>
    \A id \in source :
      /\ IsNoId(latest_tweet_id) \/ id > IdOf(latest_tweet_id)
      /\ id <= IdOf(Cursor(config_file))
      => id \in Range(RawIds)

(* -------------------------------- C4 ---------------------------------- *)
\* the caller gave keywords that differ from those of config.json
KeywordsChanged ==
  /\ pc # "exit"
  /\ before.config_file # <<>>
  /\ args.search_keywords # None
  /\ args.search_keywords # before.config_file[1].search_keywords

\* C4: a run started with changed keywords has its cursor reset to None, is
\* flagged as a query change and goes on to search_tweets, which it calls
\* with no cursor (so that no request carries a since_id).
C4_KeywordChangeRefetches ==
  KeywordsChanged /\ outcome # "interrupted" =>
    /\ outcome \notin {"KeyError", "search keywords required"}
    /\ latest_tweet_id = NoId
    /\ old_search_keywords = before.config_file[1].search_keywords

(* -------------------------------- C5 ---------------------------------- *)
\* tweets.jsonl holds ids above the persisted cursor: an earlier run was
\* interrupted between its append and its write of config.json
AheadOfCursor(file, log) ==
  /\ log # <<>>
  /\ file = <<>> \/ IdOf(Cursor(file)) < SeqMax(IdsOf(log))

\* C5: a run that starts from such a state and reaches its append writes no
\* id that tweets.jsonl already held.
C5_RefetchAbsorbed ==
  /\ pc \in {"filtered", "config", "done"}
  /\ AheadOfCursor(before.config_file, before.tweets_jsonl)
  /\ IsPrefix(before.tweets_jsonl, tweets_jsonl)
  => \A i \in (Len(before.tweets_jsonl) + 1)..Len(tweets_jsonl) :
       tweets_jsonl[i].id \notin Range(IdsOf(before.tweets_jsonl))

(* -------------------------------- C6 ---------------------------------- *)
\* C6: retry counts the empty or failed responses since the last non-empty
\* page; the loop goes on while it is below 3 and is left with it at 3, or
\* with it at 0 by the page limit; a retry repeats the bounds of the request
\* before it; and when no response held a status the loop issued exactly 3
\* requests and returns no tweet.
C6_RetryBudget ==
  /\ retry = Trailing(requests)
  /\ pc = "search" => retry < RetryLimit
  /\ pc = "merge" =>
       \/ retry = RetryLimit
       \/ retry = 0 /\ args.max_pages # 0 /\ count = args.max_pages
  /\ \A i \in 1..(Len(requests) - 1) :
       requests[i].result # "page" =>
         /\ requests[i + 1].max_id = requests[i].max_id
         /\ requests[i + 1].since_id = requests[i].since_id
  /\ call.state = "returned" /\ (\A i \in 1..Len(requests) : requests[i].result # "page")
       => Len(requests) = RetryLimit /\ returned = <<>>

\* search_tweets returned through the retry budget after a page, an empty
\* page and a failed request
C6_Witness ==
  /\ call.state = "returned"
  /\ retry = RetryLimit
  /\ \E i, j, k \in 1..Len(requests) :
       /\ requests[i].result = "page"
       /\ requests[j].result = "empty"
       /\ requests[k].result = "error"
       /\ i < k

(* -------------------------------- C7 ---------------------------------- *)
\* the ids the next request of search_tweets can be answered with
Remaining ==
  InBounds(source, request_url([q |-> config.search_keywords, max_id |-> max_id,
                                since_id |-> latest_tweet_id]))

\* C7: search_tweets terminates: each non-empty page after which the loop
\* goes on leaves strictly fewer items for the next request (the source is
\* finite, so the pages run out and the retry budget ends the loop).
C7_PagesRunOut ==
  [][(pc = "search" /\ pc' = "search" /\ count' = count + 1)
       => (Remaining' \subseteq Remaining /\ Remaining' # Remaining)]_vars

(* -------------------------------- C8 ---------------------------------- *)
SameOrNone(given, persisted) == given = None \/ given = persisted

\* the run was started with the query and the policy of config.json
Unchanged(a, c) ==
  /\ SameOrNone(a.search_keywords, c.search_keywords)
  /\ SameOrNone(a.accept_regexp_text, c.accept_regexp_text)
  /\ SameOrNone(a.reject_regexp_text, c.reject_regexp_text)
  /\ SameOrNone(a.accept_regexp_user, c.accept_regexp_user)
  /\ SameOrNone(a.reject_regexp_user, c.reject_regexp_user)

\* C8: a run with unchanged query and policy, against a source with no item
\* above the persisted cursor, leaves the three files as they were.
C8_Idempotent ==
  /\ Ended
  /\ before.config_file # <<>>
  /\ Unchanged(args, before.config_file[1])
  /\ \A id \in source : id <= IdOf(Cursor(before.config_file))
  => /\ tweets_jsonl = before.tweets_jsonl
     /\ filtered_txt = before.filtered_txt
     /\ Cursor(config_file) = Cursor(before.config_file)

(* -------------------------------- C9 ---------------------------------- *)
\* C9: when a run in recreate mode has ended, filtered.txt is the lines of
\* the tweets of the whole of tweets.jsonl that pass the run's policy, in the
\* order of tweets.jsonl.
C9_RecreateRebuilds ==
  Ended /\ args.recreate_filtered_txt =>
    filtered_txt =
      PrintAll(SelectSeq(tweets_jsonl,
        LAMBDA t : /\ Search(config.accept_regexp_text, t.text)
                   /\ ~Search(config.reject_regexp_text, t.text)
                   /\ Search(config.accept_regexp_user, t.user)
                   /\ ~Search(config.reject_regexp_user, t.user)))

\* a recreate run that changed the policy, appended new tweets and replaced a
\* filtered.txt that held lines its policy rejects
C9_Witness ==
  /\ Completed
  /\ args.recreate_filtered_txt
  /\ tweets # <<>>
  /\ before.tweets_jsonl # <<>>
  /\ Len(filtered_txt) < Len(before.filtered_txt)
  /\ filtered_txt # <<>>

(* -------------------------------- C10 --------------------------------- *)
\* the positions of the tweets of a call that satisfy the four predicates
Passing(c) ==
  { i \in 1..Len(c.tweets) :
      /\ Search(c.accept_regexp_text, c.tweets[i].text)
      /\ ~Search(c.reject_regexp_text, c.tweets[i].text)
      /\ Search(c.accept_regexp_user, c.tweets[i].user)
      /\ ~Search(c.reject_regexp_user, c.tweets[i].user) }

\* the j-th smallest element of a set of numbers
Nth(S, j) == CHOOSE i \in S : Cardinality({k \in S : k < i}) = j - 1

RECURSIVE Substituted(_, _, _, _)
Substituted(text, tokens, i, k) ==
  IF i > Len(text) THEN <<>>
  ELSE IF text[i] = "T"
       THEN (IF tokens[k] = "resolved" THEN <<"U">> ELSE <<"T">>)
              \o Substituted(text, tokens, i + 1, k + 1)
       ELSE <<text[i]>> \o Substituted(text, tokens, i + 1, k)

\* C11: when resolve_redirects returns, every token has been handled, in
\* order, and the text returned is the text given with each resolved token
\* replaced by its destination, each failed or timed-out token left as it
\* was and every other symbol kept in place.
C11_TokensSubstituted ==
  call.fn = "resolve_redirects" /\ call.state = "returned" =>
    /\ Len(call.tokens) = Len(TokenPositions(call.text))
    /\ returned = Substituted(call.text, call.tokens, 1, 1)

(* -------------------------------- C12 --------------------------------- *)
\* C12: a run started with no config.json and no keywords ends at once with
\* the error 'search keywords required': it has issued no request and the
\* three files are as they were.
C12_KeywordsRequired ==
  pc # "exit" /\ before.config_file = <<>> /\ args.search_keywords = None =>
    /\ pc = "done"
    /\ outcome = "search keywords required"
    /\ count = 0 /\ retry = 0 /\ tweets = <<>>
    /\ config_file = before.config_file
    /\ tweets_jsonl = before.tweets_jsonl
    /\ filtered_txt = before.filtered_txt

\* such a run has ended, with options given and a tweets.jsonl an earlier,
\* interrupted run left behind
C12_Witness ==
  /\ pc = "done"
  /\ outcome = "search keywords required"
  /\ args.search_keywords = None
  /\ args.accept_regexp_text = "a"
  /\ config_file = <<>>
  /\ tweets_jsonl # <<>>

(* -------------------------------- C13 --------------------------------- *)
PolicyFields ==
  {"accept_regexp_text", "reject_regexp_text", "accept_regexp_user",
   "reject_regexp_user", "auth_json_path"}

BuiltIn(field) ==
  CASE field = "accept_regexp_text" -> ""
    [] field = "reject_regexp_text" -> "(?!)"
    [] field = "accept_regexp_user" -> ""
    [] field = "reject_regexp_user" -> "(?!)"
    [] field = "auth_json_path" -> "./auth.json"

\* caller-supplied value, else persisted value, else built-in default
Effective(field, a, file) ==
  IF a[field] # None THEN a[field]
  ELSE IF file # <<>> THEN file[1][field]
  ELSE BuiltIn(field)

NextUrl ==
  request_url([q |-> config.search_keywords, max_id |-> max_id,
               since_id |-> latest_tweet_id])

\* C14: the first request of search_tweets carries no max_id; once tweets
\* have been accumulated, the next request carries max_id = (least id
\* accumulated) - 1, whatever that least id is; and no id is accumulated
\* twice.
C14_MaxIdBelowMinimum ==
  /\ requests # <<>> => requests[1].max_id = NoId
  /\ pc = "search" =>
       NextUrl.max_id = IF tweets = <<>> THEN NoId
                        ELSE SomeId(SeqMin(IdsOf(tweets)) - 1)
  /\ \A i, j \in 1..Len(tweets) : i # j => tweets[i].id # tweets[j].id

(* -------------------------------- C15 --------------------------------- *)
\* C15: config.json is written only by the step that follows the writes of
\* tweets.jsonl and filtered.txt, when tweets.jsonl already holds the run's
\* tweets; and no step of a run that has not reached its append, its abort
\* included, changes any of the three files.
C15_ConfigAfterAppend ==
  /\ [](pc \in {"filtered", "config"} => tweets_jsonl = before.tweets_jsonl \o tweets)
  /\ [][ /\ config_file' # config_file => pc = "config"
         /\ pc \in {"exit", "search", "merge"} => files' = files ]_vars

\* a run has moved the cursor of config.json after appending its tweets
C15_Witness ==
  /\ Completed
  /\ tweets # <<>>
  /\ before.config_file # <<>>
  /\ Cursor(config_file) # Cursor(before.config_file)
  /\ tweets_jsonl = before.tweets_jsonl \o tweets
  /\ before.tweets_jsonl # <<>>

(* -------------------------------- C16 --------------------------------- *)
\* the number of responses of rs that held at least one status
RECURSIVE Pages(_)
Pages(rs) ==
  IF rs = <<>> THEN 0
  ELSE (IF rs[Len(rs)].result = "page" THEN 1 ELSE 0) + Pages(SubSeq(rs, 1, Len(rs) - 1))

\* C16: count is the number of non-empty pages (empty and failed responses
\* are not counted); with max_pages > 0 the loop is left as soon as count
\* reaches max_pages, so count never exceeds it and no request follows;
\* with max_pages = 0 the loop is left only with retry at 3.
C16_PageLimit ==
  /\ count = Pages(requests)
  /\ args.max_pages > 0 =>
       /\ count <= args.max_pages
       /\ pc = "search" => count < args.max_pages
       /\ count = args.max_pages =>
            pc = "merge" /\ requests[Len(requests)].result = "page"
  /\ args.max_pages = 0 /\ pc = "merge" => retry = RetryLimit

\* search_tweets returned at the page limit of 2: an empty response, a
\* page, a failed request and the second page, after which it stopped
C16_Witness ==
  /\ call.state = "returned"
  /\ args.max_pages = 2
  /\ count = 2
  /\ Len(requests) = 4
  /\ requests[1].result = "empty"
  /\ requests[3].result = "error"

(* -------------------------------- C17 --------------------------------- *)
\* C17: search_tweets sleeps its 15 minutes after a failed request and after
\* no other response, and each sleep is followed by a retry: either a later
\* request was issued or the loop is still running (so a failure that makes
\* retry reach 3 is not slept on).
C17_CooldownBeforeRetry ==
  /\ \A i \in 1..Len(requests) : requests[i].slept <=> requests[i].result = "error"
  /\ \A i \in 1..Len(requests) :
       requests[i].slept => i < Len(requests) \/ pc = "search"

(* -------------------------------- C18 --------------------------------- *)
\* C18: whenever the alarm goes off while a token is resolved, the call of
\* resolve_redirects does not end with an exception, and search_tweets,
\* which called it, goes on; only a KeyboardInterrupt ends the fetch.
C18_ResolutionNeverAborts ==
  call.fn = "resolve_redirects" =>
    /\ call.state # "raised"
    /\ pc = "search" \/ call.state = "interrupted"

(* -------------------------------- C19 --------------------------------- *)
\* the tweets of ts that pass the policy of the current run
Kept(ts) ==
  SelectSeq(ts, LAMBDA t : /\ Search(config.accept_regexp_text, t.text)
                           /\ ~Search(config.reject_regexp_text, t.text)
                           /\ Search(config.accept_regexp_user, t.user)
                           /\ ~Search(config.reject_regexp_user, t.user))

NoRepeat(seq) == \A i, j \in 1..Len(seq) : i # j => seq[i] # seq[j]

\* C19: a completed normal-mode run that found filtered.txt holding one line
\* for each tweet of tweets.jsonl that passes its policy, in order, leaves
\* it so: the old lines stay, the lines of the passing new tweets are added
\* at the end, and no tweet has two lines.
C19_FilteredLogAppendOnly ==
  /\ Completed
  /\ ~args.recreate_filtered_txt
  /\ before.filtered_txt = PrintAll(Kept(before.tweets_jsonl))
  /\ NoRepeat(before.filtered_txt)
  => /\ filtered_txt = before.filtered_txt \o PrintAll(Kept(tweets))
     /\ filtered_txt = PrintAll(Kept(tweets_jsonl))
     /\ NoRepeat(filtered_txt)

(* -------------------------------- C20 --------------------------------- *)
\* the number of times id occurs in the sequence of ids ns
Occurrences(ns, id) == Cardinality({ i \in 1..Len(ns) : ns[i] = id })

\* the pages ran out: the request the loop would issue next has no answer
Exhausted == InBounds(source, NextUrl) = {}

\* the items that appeared at the source while the run was paginating
Appeared == source \ before.source

====
